---- MODULE Spec2Model ----
(***************************************************************************)
(* Model of the detection-aware gateway (src/src/main.rs, config.rs,      *)
(* api.rs): configuration loading and validation, detector resolution,    *)
(* request construction, and the non-streaming and streaming responders.  *)
(***************************************************************************)
EXTENDS Naturals, Integers, Sequences, FiniteSets, TLC

VARIABLES
    startup,         \* position of main(): "start", "loaded", "validated", "panicked", "unit"
    gateway_config,  \* the GatewayConfig in use: [detectors, routes]
    route_idx,       \* index of the route whose handler ran last (0: none)
    selection,       \* OrchestratorDetector built by the last resolution: [input, output]
    pc,              \* position of the route handler: "idle", "received", "sent",
                     \* "streaming", "done", "panicked"
    request,         \* the client's request: [headers (as sent), payload]
    outbound,        \* the request handed to the orchestrator client: [headers, payload, detectors]
    response,        \* what the client got back: [status, kind, body]
    upstream,        \* what the orchestrator delivered last: a send failure, an error
                     \* status, a reply body, or a stream item (a chunk)
    event,           \* the SSE event emitted for it: [data]
    n_chunks,        \* number of upstream stream items handled so far
    sse              \* the SSE stream as the client has seen it: [events written,
                     \* errors among them, failed (the byte stream gave a read error)]

handler_vars == <<pc, request, outbound, response, upstream, event, n_chunks, sse>>
vars == <<startup, gateway_config, route_idx, selection, pc, request, outbound, response,
          upstream, event, n_chunks, sse>>

\* ---------------------------------------------------------------- bounds
MaxDetectors == 2
MaxRoutes == 1
MaxHeaders == 2
MaxChoices == 2
MaxLines == 2
MaxChunks == 2

\* ---------------------------------------------------------------- Option<T>
None == <<>>
Some(x) == <<x>>
IsSome(o) == o # <<>>
Unwrap(o) == o[1]

\* ---------------------------------------------------------------- HashMap
EmptyMap == <<>>
MapInsert(m, k, v) == [x \in (DOMAIN m) \cup {k} |-> IF x = k THEN v ELSE m[x]]

\* Vec::contains
Contains(s, x) == \E i \in 1..Len(s) : s[i] = x

\* ---------------------------------------------------------------- configuration universe
DetectorNames == {"a", "b"}
Servers == {"s"}
ParamValues == {"p1", "p2"}

\* DetectorConfig as deserialized (server and detector_params are optional)
DetectorConfig(params) ==
    [name : DetectorNames,
     server : {None} \cup {Some(s) : s \in Servers},
     input : BOOLEAN,
     output : BOOLEAN,
     detector_params : {None} \cup {Some(p) : p \in params}]

SeqsUpTo(S, n) == UNION {[1..k -> S] : k \in 0..n}

\* RouteConfig; a route lists at most as many names as there are detector names,
\* which covers every subset in every order, and repeated names
RouteConfig(fallbacks) ==
    [name : {"chat"},
     detectors : SeqsUpTo(DetectorNames, Cardinality(DetectorNames)),
     fallback_message : fallbacks]

\* GatewayConfig (the orchestrator host/port play no part in the modelled behaviour)
GatewayConfig(params, fallbacks, nroutes) ==
    [detectors : SeqsUpTo(DetectorConfig(params), MaxDetectors),
     routes : UNION {[1..k -> RouteConfig(fallbacks)] : k \in 1..nroutes}]

\* ---------------------------------------------------------------- config.rs
\* DetectorConfig::with_server_default
with_server_default(d) ==
    IF d.server = None THEN [d EXCEPT !.server = Some(d.name)] ELSE d

\* read_config: the parsed YAML with every detector's server defaulted
read_config(raw) ==
    [raw EXCEPT !.detectors = [i \in 1..Len(raw.detectors) |-> with_server_default(raw.detectors[i])]]

\* Iterator::find(|d| d.name == detector_name): index of the first match, 0 if none
FindDetector(detectors, detector_name) ==
    IF \E i \in 1..Len(detectors) : detectors[i].name = detector_name
    THEN CHOOSE i \in 1..Len(detectors) :
            /\ detectors[i].name = detector_name
            /\ \A j \in 1..(i - 1) : detectors[j].name # detector_name
    ELSE 0

\* first loop of validate_registered_detectors for one route: unknown names
UnknownIssues(cfg, route) ==
    SelectSeq([i \in 1..Len(route.detectors) |->
                  [kind |-> "unknown", what |-> route.detectors[i]]],
              LAMBDA is : ~ \E j \in 1..Len(cfg.detectors) : cfg.detectors[j].name = is.what)

\* faulty variant of ChecksServer: inspects output detectors in the same branch
ChecksServerAnyRole(d) == d.input \/ d.output

\* the branch of the duplicate-server loop that inspects a detector
ChecksServer(d) == d.input

\* second loop of validate_registered_detectors for one route, from position i,
\* with the sets seen_input and seen_output; the result is the issues pushed
\* (an "unwrap" entry stands for the panic of server.as_ref().unwrap() on an unset server)
RECURSIVE DuplicateIssues(_, _, _, _, _)
DuplicateIssues(cfg, route, i, seen_input, seen_output) ==
    IF i > Len(route.detectors) THEN <<>>
    ELSE LET k == FindDetector(cfg.detectors, route.detectors[i]) IN
         IF k = 0 \/ ~ ChecksServer(cfg.detectors[k])
         THEN DuplicateIssues(cfg, route, i + 1, seen_input, seen_output)
         ELSE LET d == cfg.detectors[k] IN
              IF d.server = None THEN <<[kind |-> "unwrap", what |-> d.name]>>
              ELSE LET server == Unwrap(d.server) IN
                   (IF server \in seen_input
                    THEN <<[kind |-> "dup_input", what |-> server]>> ELSE <<>>)
                   \o (IF server \in seen_output
                       THEN <<[kind |-> "dup_output", what |-> server]>> ELSE <<>>)
                   \o DuplicateIssues(cfg, route, i + 1,
                                      seen_input \cup {server}, seen_output \cup {server})

RECURSIVE RouteIssues(_, _)
RouteIssues(cfg, r) ==
    IF r > Len(cfg.routes) THEN <<>>
    ELSE UnknownIssues(cfg, cfg.routes[r])
         \o DuplicateIssues(cfg, cfg.routes[r], 1, {}, {})
         \o RouteIssues(cfg, r + 1)

\* validate_registered_detectors: TRUE when it panics
validate_registered_detectors(cfg) == RouteIssues(cfg, 1) # <<>>

\* ---------------------------------------------------------------- main.rs: Detector Resolver
\* faulty variant of ServerKey: ignores the configured server
ServerKeyNameOnly(d) == d.name

\* the key under which a detector's params are inserted
ServerKey(d) == IF IsSome(d.server) THEN Unwrap(d.server) ELSE d.name

\* whether the loop body inserts anything for this detector
Selected(detectors, d) == Contains(detectors, d.name) /\ IsSome(d.detector_params)

RECURSIVE ResolveFrom(_, _, _, _)
ResolveFrom(detectors, detector_config, i, acc) ==
    IF i > Len(detector_config) THEN acc
    ELSE LET d == detector_config[i] IN
         IF Selected(detectors, d)
         THEN LET p == Unwrap(d.detector_params)
                  key == ServerKey(d)
                  inp == IF d.input THEN MapInsert(acc.input, key, p) ELSE acc.input
                  out == IF d.output THEN MapInsert(acc.output, key, p) ELSE acc.output
              IN ResolveFrom(detectors, detector_config, i + 1, [input |-> inp, output |-> out])
         ELSE ResolveFrom(detectors, detector_config, i + 1, acc)

get_orchestrator_detectors(detectors, detector_config) ==
    ResolveFrom(detectors, detector_config, 1, [input |-> EmptyMap, output |-> EmptyMap])

NoSelection == [input |-> EmptyMap, output |-> EmptyMap]

\* ---------------------------------------------------------------- startup (main)
EmptyConfig == [detectors |-> <<>>, routes |-> <<>>]

\* no request is being handled
NoRequest == [headers |-> <<>>, payload |-> [is_object |-> TRUE, stream |-> "absent"]]
NoOutbound == [sent |-> FALSE]
NoResponse == [status |-> 0, kind |-> "none", body |-> <<>>]
NoUpstream == [kind |-> "none"]
NoEvent == [emitted |-> FALSE, data |-> <<>>]
NoSse == [events |-> 0, errors |-> 0, failed |-> FALSE]

HandlerIdle ==
    /\ pc = "idle"
    /\ request = NoRequest
    /\ outbound = NoOutbound
    /\ response = NoResponse
    /\ upstream = NoUpstream
    /\ event = NoEvent
    /\ n_chunks = 0
    /\ sse = NoSse

Init ==
    /\ startup = "start"
    /\ gateway_config = EmptyConfig
    /\ route_idx = 0
    /\ selection = NoSelection
    /\ HandlerIdle

\* main: config::read_config(&config_path)
ReadConfig(universe) ==
    /\ startup = "start"
    /\ \E raw \in universe :
          gateway_config' = read_config(raw)
    /\ startup' = "loaded"
    /\ UNCHANGED <<route_idx, selection>>
    /\ UNCHANGED handler_vars

\* main: validate_registered_detectors(&gateway_config)
Validate ==
    /\ startup = "loaded"
    /\ startup' = IF validate_registered_detectors(gateway_config) THEN "panicked" ELSE "validated"
    /\ UNCHANGED <<gateway_config, route_idx, selection>>
    /\ UNCHANGED handler_vars

\* a route handler's first step: get_orchestrator_detectors(detectors, gateway_config.detectors)
Resolve ==
    /\ startup \in {"validated", "unit"}
    /\ \E r \in 1..Len(gateway_config.routes) :
          /\ route_idx' = r
          /\ selection' = get_orchestrator_detectors(gateway_config.routes[r].detectors,
                                                     gateway_config.detectors)
    /\ UNCHANGED <<startup, gateway_config>>
    /\ UNCHANGED handler_vars

Next == ReadConfig(GatewayConfig(ParamValues, {None}, 1)) \/ Validate \/ Resolve

Spec == Init /\ [][Next]_vars

\* The Detector Resolver as a function of arbitrary arguments (unit-level call):
\* any detector list, servers unset or set, and any route list.
InitResolver ==
    /\ startup = "unit"
    /\ gateway_config \in GatewayConfig(ParamValues, {None}, 1)
    /\ route_idx = 0
    /\ selection = NoSelection
    /\ HandlerIdle

SpecResolver == InitResolver /\ [][Resolve]_vars

\* Startup alone, as the unit tests of config.rs exercise it: detectors without
\* params, one or more routes.
NextValidate == ReadConfig(GatewayConfig({}, {None}, MaxRoutes)) \/ Validate

SpecValidate == Init /\ [][NextValidate]_vars

\* ---------------------------------------------------------------- header names
\* a header name is the sequence of its characters
UpperCase == <<"A", "B", "C", "D", "E", "F", "G", "H", "I", "J", "K", "L", "M", "N", "O", "P", "Q", "R", "S", "T", "U", "V", "W", "X", "Y", "Z">>
LowerCase == <<"a", "b", "c", "d", "e", "f", "g", "h", "i", "j", "k", "l", "m", "n", "o", "p", "q", "r", "s", "t", "u", "v", "w", "x", "y", "z">>

\* u8::to_ascii_lowercase
LowerChar(c) ==
    IF \E i \in 1..Len(UpperCase) : UpperCase[i] = c
    THEN LowerCase[CHOOSE i \in 1..Len(UpperCase) : UpperCase[i] = c]
    ELSE c

\* str::to_ascii_lowercase
to_ascii_lowercase(name) == [i \in 1..Len(name) |-> LowerChar(name[i])]

\* str::starts_with
starts_with(str, prefix) ==
    Len(str) >= Len(prefix) /\ SubSeq(str, 1, Len(prefix)) = prefix

\* the two literals the forwarding loop compares with
AuthorizationLiteral == <<"a", "u", "t", "h", "o", "r", "i", "z", "a", "t", "i", "o", "n">>
ForwardedLiteral == <<"x", "-", "f", "o", "r", "w", "a", "r", "d", "e", "d">>
ForwardLiteralShort == <<"x", "-", "f", "o", "r", "w", "a", "r", "d">>

\* header names clients send
WireHeaderNames ==
    {<<"A", "u", "t", "h", "o", "r", "i", "z", "a", "t", "i", "o", "n">>,
     <<"X", "-", "F", "o", "r", "w", "a", "r", "d", "e", "d", "-", "F", "o", "r">>,
     <<"x", "-", "f", "o", "r", "w", "a", "r", "d", "e", "d">>,
     <<"x", "-", "f", "o", "r", "w", "a", "r", "d">>,
     <<"a", "u", "t", "h", "o", "r", "i", "z", "a", "t", "i", "o", "n", "s">>,
     <<"C", "o", "n", "t", "e", "n", "t", "-", "T", "y", "p", "e">>}

WireHeaders == [name : WireHeaderNames, value : {"v"}]
HeaderLists == SeqsUpTo(WireHeaders, MaxHeaders)

\* the HeaderMap extractor: http::HeaderName holds names in lower case
HeaderMapOf(wire) ==
    [i \in 1..Len(wire) |-> [name |-> to_ascii_lowercase(wire[i].name), value |-> wire[i].value]]

\* faulty variant of IsForwarded: a shorter prefix
IsForwardedShortPrefix(name_str) == starts_with(name_str, ForwardLiteralShort)

\* name_str.starts_with("x-forwarded")
IsForwarded(name_str) == starts_with(name_str, ForwardedLiteral)

\* name_str == "authorization"
IsAuthorization(name_str) == name_str = AuthorizationLiteral

\* the forwarding loop of orchestrator_post_request / orchestrator_streaming_request:
\* the headers attached to req, in order
RECURSIVE ForwardFrom(_, _)
ForwardFrom(headers, i) ==
    IF i > Len(headers) THEN <<>>
    ELSE LET name_str == to_ascii_lowercase(headers[i].name) IN
         (IF IsAuthorization(name_str) THEN <<headers[i]>> ELSE <<>>)
         \o (IF IsForwarded(name_str) THEN <<headers[i]>> ELSE <<>>)
         \o ForwardFrom(headers, i + 1)

ForwardHeaders(headers) == ForwardFrom(headers, 1)

\* ---------------------------------------------------------------- client payloads
\* the JSON body of the client's request: an object or not, and its "stream" member
\* (absent, true, false, or a value that is no boolean)
Payloads ==
    [is_object : {TRUE}, stream : {"absent", "true", "false", "other"}]
    \cup [is_object : {FALSE}, stream : {"absent"}]

\* handle_chat_completions: the is_streaming flag
is_streaming(payload) == payload.is_object /\ payload.stream = "true"

\* ---------------------------------------------------------------- serving state
\* a configuration that passed startup: detector a on input, detector b on output,
\* a route with a fallback message and a route without
ServeRawConfig ==
    [detectors |->
        <<[name |-> "a", server |-> None, input |-> TRUE, output |-> FALSE,
           detector_params |-> Some("p1")],
          [name |-> "b", server |-> Some("s"), input |-> FALSE, output |-> TRUE,
           detector_params |-> Some("p2")]>>,
     routes |->
        <<[name |-> "chat", detectors |-> <<"a", "b">>, fallback_message |-> Some("blocked")],
          [name |-> "plain", detectors |-> <<"a">>, fallback_message |-> None]>>]

\* main has loaded and validated the configuration and registered the routes
InitServe ==
    /\ startup = "validated"
    /\ gateway_config = read_config(ServeRawConfig)
    /\ ~ validate_registered_detectors(gateway_config)
    /\ route_idx = 0
    /\ selection = NoSelection
    /\ HandlerIdle

Route == gateway_config.routes[route_idx]

\* axum dispatches a POST on a route's path to its handler
ReceiveRequest(headerLists, payloads) ==
    /\ startup = "validated"
    /\ pc = "idle"
    /\ \E r \in 1..Len(gateway_config.routes) : \E h \in headerLists : \E p \in payloads :
          /\ route_idx' = r
          /\ request' = [headers |-> h, payload |-> p]
    /\ pc' = "received"
    /\ UNCHANGED <<startup, gateway_config, selection, outbound, response, upstream, event, n_chunks, sse>>

\* handle_chat_completions and the responder it picks, up to req.send():
\* resolve the detectors, insert them into the payload object (as_mut().unwrap()
\* panics when the payload is no object), copy the forwarded headers
BuildRequest ==
    /\ pc = "received"
    /\ selection' = get_orchestrator_detectors(Route.detectors, gateway_config.detectors)
    /\ IF request.payload.is_object
       THEN /\ outbound' = [sent |-> TRUE,
                            headers |-> ForwardHeaders(HeaderMapOf(request.headers)),
                            payload |-> request.payload,
                            detectors |-> selection',
                            streaming |-> is_streaming(request.payload)]
            /\ pc' = "sent"
       ELSE /\ outbound' = NoOutbound
            /\ pc' = "panicked"
    /\ UNCHANGED <<startup, gateway_config, route_idx, request, response, upstream, event, n_chunks, sse>>

\* request construction alone, for every header list and payload
NextRequest == ReceiveRequest(HeaderLists, Payloads) \/ BuildRequest

SpecRequest == InitServe /\ [][NextRequest]_vars

\* ---------------------------------------------------------------- text and JSON
\* a text is a sequence of tokens: a literal piece [lit], a whole JSON document
\* [json], or a value formatted into a message ([status], [text], [debug], [error])
Lit(str) == [lit |-> str]
Json(v) == [json |-> v]
NewLine == Lit("\n")

\* serde_json::from_str: a text parses when, white space aside, it is one JSON document
ParseJson(text) ==
    LET t == SelectSeq(text, LAMBDA tok : tok # NewLine) IN
    IF Len(t) = 1 /\ DOMAIN t[1] = {"json"} THEN Some(t[1].json) ELSE None

\* api.rs Detections: input and output are optional lists of detection results
OptionalResults == {None, Some(<<>>), Some(<<"result">>)}
Detections == [input : OptionalResults, output : OptionalResults]

\* the "detections" member of a document: absent, null, or an object
Absent == [present |-> FALSE, value |-> None]
Null == [present |-> TRUE, value |-> None]
Object(d) == [present |-> TRUE, value |-> Some(d)]
DetectionsMembers == {Absent, Null} \cup {Object(d) : d \in Detections}

\* Deserialize of an Option<Detections> field: absent and null both give None
ParseDetections(member) == member.value
\* Serialize of an Option<Detections> field: always written, None as null
SerializeDetections(detections) == [present |-> TRUE, value |-> detections]

\* api.rs GenerationMessage::new
GenerationMessageNew(message) ==
    [content |-> message, refusal |-> None, role |-> "assistant",
     tool_calls |-> None, audio |-> None]

\* the i-th choice of an orchestrator reply (api.rs GenerationChoice)
ReplyChoice(i) ==
    [finish_reason |-> "length", index |-> i - 1,
     message |-> [content |-> "hi", refusal |-> None, role |-> "assistant",
                  tool_calls |-> Some("call"), audio |-> None],
     logprobs |-> Some("lp")]

\* non-streaming reply documents (api.rs OrchestratorResponse, the members the gateway reads)
ReplyDocs ==
    {[choices |-> [i \in 1..n |-> ReplyChoice(i)], detections |-> m] :
        n \in 0..MaxChoices, m \in DetectionsMembers}

\* the i-th choice of a streaming chunk (api.rs StreamingChoice)
StreamingChoice(i) ==
    [index |-> i - 1,
     delta |-> [content |-> Some("hi"), role |-> None, tool_calls |-> Some("call")],
     logprobs |-> None, finish_reason |-> None, stop_reason |-> None]

StreamingDetectionsMembers ==
    {Absent, Null,
     Object([input |-> None, output |-> None]),
     Object([input |-> None, output |-> Some(<<"result">>)]),
     Object([input |-> Some(<<"result">>), output |-> None])}

\* streaming chunk documents (api.rs StreamingResponse)
StreamingDocs ==
    {[choices |-> [i \in 1..n |-> StreamingChoice(i)], detections |-> m] :
        n \in 0..MaxChoices, m \in StreamingDetectionsMembers}

\* a JSON document of neither shape
OtherJson == [object |-> "control"]

\* serde_json::from_value::<OrchestratorResponse>: the members the struct requires
IsReplyShape(v) ==
    /\ DOMAIN v = {"choices", "detections"}
    /\ \A i \in 1..Len(v.choices) : "message" \in DOMAIN v.choices[i]

\* serde_json::from_str::<StreamingResponse>
IsStreamingShape(v) ==
    /\ DOMAIN v = {"choices", "detections"}
    /\ \A i \in 1..Len(v.choices) : "delta" \in DOMAIN v.choices[i]

\* ---------------------------------------------------------------- Fallback Policy
\* check_payload_detections
check_payload_detections(detections, route_fallback_message) ==
    IF IsSome(route_fallback_message) /\ IsSome(detections)
    THEN Some([message |-> GenerationMessageNew(Unwrap(route_fallback_message)),
               finish_reason |-> "stop", index |-> 0, logprobs |-> None])
    ELSE None

\* faulty variant of ApplyFallback: replaces only the first choice
ApplyFallbackFirstOnly(orchestrator_response, route_fallback_message) ==
    LET detection == check_payload_detections(orchestrator_response.detections,
                                              route_fallback_message) IN
    IF IsSome(detection) /\ Len(orchestrator_response.choices) > 0
    THEN [orchestrator_response EXCEPT !.choices[1] = Unwrap(detection)]
    ELSE orchestrator_response

\* handle_non_streaming_generation, Ok arm: the reply with the fallback applied
ApplyFallback(orchestrator_response, route_fallback_message) ==
    LET detection == check_payload_detections(orchestrator_response.detections,
                                              route_fallback_message) IN
    IF IsSome(detection)
    THEN [orchestrator_response EXCEPT !.choices = <<Unwrap(detection)>>]
    ELSE orchestrator_response

\* faulty variant of ApplyStreamingFallback: rewrites every choice
ApplyStreamingFallbackAll(streaming_response, route_fallback_message) ==
    IF IsSome(route_fallback_message) /\ IsSome(streaming_response.detections)
    THEN [streaming_response EXCEPT
             !.choices = [i \in 1..Len(streaming_response.choices) |->
                             [streaming_response.choices[i] EXCEPT
                                 !.delta = [content |-> Some(Unwrap(route_fallback_message)),
                                            role |-> Some("assistant"),
                                            tool_calls |-> None],
                                 !.finish_reason = Some("stop")]]]
    ELSE streaming_response

\* the streaming closure's rewrite of a parsed chunk
ApplyStreamingFallback(streaming_response, route_fallback_message) ==
    IF /\ IsSome(route_fallback_message)
       /\ IsSome(streaming_response.detections)
       /\ Len(streaming_response.choices) > 0
    THEN [streaming_response EXCEPT
             !.choices[1].delta = [content |-> Some(Unwrap(route_fallback_message)),
                                   role |-> Some("assistant"),
                                   tool_calls |-> None],
             !.choices[1].finish_reason = Some("stop")]
    ELSE streaming_response

\* ---------------------------------------------------------------- orchestrator outcomes
Statuses == {200, 204, 302, 503}
\* StatusCode::is_success
is_success(status) == status >= 200 /\ status < 300

TransportErrors == {"connection refused"}

\* the body of an error response: read in full, or its reading fails
ErrorBodies == {Some("overloaded"), None}

\* orchestrator_post_request: the message of the error it returns when send fails
PostSendErrorText(e) ==
    <<Lit("Failed to send request or connect to orchestrator: "), [debug |-> e]>>

\* orchestrator_streaming_request: .context(..)? keeps e as the source; the error's
\* Display, which the handler returns, is the context string alone
StreamingSendErrorText(e) ==
    <<Lit("Failed to send request or connect to orchestrator: {}")>>

\* both: the message for a status that is no success
StatusErrorText(status, text) ==
    <<Lit("Orchestrator returned error status "), [status |-> status], Lit(": "),
      [text |-> text]>>

InternalServerError(body) == [status |-> 500, kind |-> "text", body |-> body]

\* req.send() fails
SendFails ==
    /\ pc = "sent"
    /\ \E e \in TransportErrors :
          /\ upstream' = [kind |-> "send_error", error |-> e]
          /\ response' = InternalServerError(IF outbound.streaming
                                             THEN StreamingSendErrorText(e)
                                             ELSE PostSendErrorText(e))
    /\ pc' = "done"
    /\ UNCHANGED <<startup, gateway_config, route_idx, selection, request, outbound,
                   event, n_chunks, sse>>

\* the orchestrator answers with a status that is no success
UpstreamStatusError ==
    /\ pc = "sent"
    /\ \E status \in {st \in Statuses : ~ is_success(st)} : \E body \in ErrorBodies :
          LET text == IF IsSome(body) THEN Unwrap(body)
                      ELSE IF outbound.streaming THEN "Unknown error" ELSE ""
          IN /\ upstream' = [kind |-> "status_error", status |-> status, body |-> body]
             /\ response' = InternalServerError(StatusErrorText(status, text))
    /\ pc' = "done"
    /\ UNCHANGED <<startup, gateway_config, route_idx, selection, request, outbound,
                   event, n_chunks, sse>>

\* bodies of a successful non-streaming answer: a reply document, another JSON
\* document, text that is no JSON, or nothing (the body could not be read)
ReplyTexts ==
    {<<Json(d)>> : d \in ReplyDocs} \cup {<<Json(OtherJson)>>, <<Lit("oops")>>, <<>>}

\* the non-streaming responder on a successful status: orchestrator_post_request
\* parses the body, handle_non_streaming_generation applies the fallback
UpstreamReply ==
    /\ pc = "sent"
    /\ ~ outbound.streaming
    /\ \E status \in {st \in Statuses : is_success(st)} : \E text \in ReplyTexts :
          /\ upstream' = [kind |-> "reply", text |-> text]
          /\ LET json == ParseJson(text) IN
             IF json = None
             THEN /\ response' = InternalServerError(<<[error |-> "serde_json"]>>)
                  /\ pc' = "done"
             ELSE IF ~ IsReplyShape(Unwrap(json))
             THEN /\ response' = NoResponse
                  /\ pc' = "panicked"
             ELSE LET parsed == [choices |-> Unwrap(json).choices,
                                 detections |-> ParseDetections(Unwrap(json).detections)]
                      replied == ApplyFallback(parsed, Route.fallback_message)
                  IN /\ response' =
                          [status |-> 200, kind |-> "json",
                           body |-> <<Json([choices |-> replied.choices,
                                            detections |-> SerializeDetections(replied.detections)])>>]
                     /\ pc' = "done"
    /\ UNCHANGED <<startup, gateway_config, route_idx, selection, request, outbound,
                   event, n_chunks, sse>>

\* the streaming responder on a successful status: the SSE response starts
UpstreamStreamStarts ==
    /\ pc = "sent"
    /\ outbound.streaming
    /\ \E status \in {st \in Statuses : is_success(st)} :
          response' = [status |-> 200, kind |-> "sse", body |-> <<>>]
    /\ pc' = "streaming"
    /\ UNCHANGED <<startup, gateway_config, route_idx, selection, request, outbound,
                   upstream, event, n_chunks, sse>>

\* ---------------------------------------------------------------- upstream stream
DataPrefix == Lit("data: ")
Done == Lit("[DONE]")

\* a document the transport splits inside its data line: the bytes up to the split
\* end one chunk, the rest of the line begins the next
Front(d) == [front |-> d]
Back(d) == [back |-> d]
SplitDoc ==
    [choices |-> <<StreamingChoice(1)>>,
     detections |-> Object([input |-> None, output |-> Some(<<"result">>)])]

\* the lines an upstream chunk may hold, each the sequence of its tokens: a data line
\* with a document, the sentinel, text that is no JSON or nothing; a blank line;
\* a comment line; a line whose "data:" is not followed by a space; a data line cut
\* by the end of the chunk, and the remainder of such a line
Lines ==
    {<<DataPrefix, Json(d)>> : d \in StreamingDocs \cup {OtherJson}}
    \cup {<<DataPrefix, Done>>, <<DataPrefix, Lit("oops")>>, <<DataPrefix>>,
          <<>>, <<Lit(": ping")>>, <<Lit("data:[DONE]")>>,
          <<DataPrefix, Front(SplitDoc)>>, <<Back(SplitDoc)>>}

\* items of response.bytes_stream(): a read error, bytes that are no UTF-8, or text
Chunks ==
    {[kind |-> "read_error", utf8 |-> FALSE, lines |-> <<>>],
     [kind |-> "bytes", utf8 |-> FALSE, lines |-> <<>>]}
    \cup {[kind |-> "bytes", utf8 |-> TRUE, lines |-> ls] : ls \in SeqsUpTo(Lines, MaxLines)}

\* the loop over lines: the payloads of the data lines that are not the sentinel
RECURSIVE DataLines(_, _)
DataLines(lines, i) ==
    IF i > Len(lines) THEN <<>>
    ELSE (IF Len(lines[i]) >= 1 /\ lines[i][1] = DataPrefix /\ Tail(lines[i]) # <<Done>>
          THEN <<Tail(lines[i])>> ELSE <<>>)
         \o DataLines(lines, i + 1)

\* Vec<String>::join("\n")
RECURSIVE Join(_, _)
Join(data_lines, i) ==
    IF i > Len(data_lines) THEN <<>>
    ELSE IF i = Len(data_lines) THEN data_lines[i]
    ELSE data_lines[i] \o <<NewLine>> \o Join(data_lines, i + 1)

\* what is returned when no data line was collected
EmptyCandidate == <<>>

\* orchestrator_streaming_request, the closure mapped over the byte stream:
\* Err(message) or Ok(candidate text)
ChunkResult(c) ==
    IF c.kind = "read_error" THEN [ok |-> FALSE, error |-> "Failed to read chunk", text |-> <<>>]
    ELSE IF ~ c.utf8 THEN [ok |-> FALSE, error |-> "Invalid UTF-8 in chunk", text |-> <<>>]
    ELSE LET data_lines == DataLines(c.lines, 1) IN
         [ok |-> TRUE, error |-> "",
          text |-> IF data_lines = <<>> THEN EmptyCandidate ELSE Join(data_lines, 1)]

\* serde_json::to_string(&streaming_response)
SerializeStreaming(streaming_response) ==
    <<Json([choices |-> streaming_response.choices,
            detections |-> SerializeDetections(streaming_response.detections)])>>

\* handle_streaming_generation, the closure mapped over the chunk stream: every
\* item gives one Event
EventFor(chunk_result, route_fallback_message) ==
    IF ~ chunk_result.ok
    THEN [emitted |-> TRUE,
          data |-> <<Lit("{\"error\": \""), [error |-> chunk_result.error], Lit("\"}")>>]
    ELSE LET json == ParseJson(chunk_result.text) IN
         IF json # None /\ IsStreamingShape(Unwrap(json))
         THEN LET parsed == [choices |-> Unwrap(json).choices,
                             detections |-> ParseDetections(Unwrap(json).detections)]
              IN [emitted |-> TRUE,
                  data |-> SerializeStreaming(ApplyStreamingFallback(parsed, route_fallback_message))]
         ELSE [emitted |-> TRUE, data |-> chunk_result.text]

\* the data of an Event is the error payload {"error": "<message>"}
IsErrorEvent(e) == Len(e.data) = 3 /\ DOMAIN e.data[2] = {"error"}

\* the SSE response polls the stream: the upstream stream yields an item and the
\* closures map it to an Event. Neither closure ends the stream: an item that is
\* no UTF-8 is followed by whatever the byte stream yields next; a byte stream
\* that failed to read yields nothing more
UpstreamChunk ==
    /\ pc = "streaming"
    /\ upstream = NoUpstream
    /\ ~ sse.failed
    /\ n_chunks < MaxChunks
    /\ \E c \in Chunks :
          /\ upstream' = c
          /\ event' = EventFor(ChunkResult(c), Route.fallback_message)
    /\ n_chunks' = n_chunks + 1
    /\ UNCHANGED <<startup, gateway_config, route_idx, selection, pc, request, outbound, response,
                   sse>>

\* the Event is written to the client; only then is the stream polled again
FlushEvent ==
    /\ pc = "streaming"
    /\ upstream # NoUpstream
    /\ upstream' = NoUpstream
    /\ event' = NoEvent
    /\ sse' = [events |-> sse.events + (IF event.emitted THEN 1 ELSE 0),
               errors |-> sse.errors + (IF IsErrorEvent(event) THEN 1 ELSE 0),
               failed |-> upstream.kind = "read_error"]
    /\ UNCHANGED <<startup, gateway_config, route_idx, selection, pc, request, outbound, response,
                   n_chunks>>

\* the upstream stream ends, and with it the SSE stream
UpstreamEnd ==
    /\ pc = "streaming"
    /\ upstream = NoUpstream
    /\ pc' = "done"
    /\ UNCHANGED <<startup, gateway_config, route_idx, selection, request, outbound, response,
                   upstream, event, n_chunks, sse>>

\* the gateway serving requests, non-streaming and streaming
NextServe ==
    \/ ReceiveRequest({<<>>}, Payloads)
    \/ BuildRequest
    \/ SendFails
    \/ UpstreamStatusError
    \/ UpstreamReply
    \/ UpstreamStreamStarts
    \/ UpstreamChunk
    \/ FlushEvent
    \/ UpstreamEnd

SpecServe == InitServe /\ [][NextServe]_vars

\* ================================================================ claims
Range(s) == {s[i] : i \in 1..Len(s)}
AllKeys == DetectorNames \cup Servers
MaxOf(S) == CHOOSE x \in S : \A y \in S : y <= x

\* the detectors of D that the claims count as contributing to key k of a role's map:
\* named in R, params present, the role's flag set, and server key k
\* (server, or name when server is unset)
Contributors(D, R, role, k) ==
    {i \in 1..Len(D) :
        /\ D[i].name \in Range(R)
        /\ D[i].detector_params # None
        /\ D[i][role]
        /\ (IF D[i].server = None THEN D[i].name ELSE D[i].server[1]) = k}

ResolvedArgsR == gateway_config.routes[route_idx].detectors
ResolvedArgsD == gateway_config.detectors

\* C1 as stated: after get_orchestrator_detectors(R, D), key k with params p is in
\* the input (output) map exactly when some detector of D named in R with params p
\* and input (output) = true has server key k.
C1_ExactPairs ==
    route_idx # 0 =>
        \A role \in {"input", "output"} : \A k \in AllKeys : \A p \in ParamValues :
            (k \in DOMAIN selection[role] /\ selection[role][k] = p)
            <=> (\E i \in Contributors(ResolvedArgsD, ResolvedArgsR, role, k) :
                    ResolvedArgsD[i].detector_params = Some(p))

\* C1 amended: the keys of the input (output) map are exactly the server keys of the
\* detectors of D named in R with params and input (output) = true, and the value
\* under a key is the params of the last such detector in D's order.
C1_LastWins ==
    route_idx # 0 =>
        \A role \in {"input", "output"} :
            /\ DOMAIN selection[role] \subseteq AllKeys
            /\ \A k \in AllKeys :
                  LET c == Contributors(ResolvedArgsD, ResolvedArgsR, role, k) IN
                  /\ k \in DOMAIN selection[role] <=> c # {}
                  /\ c # {} => selection[role][k] = ResolvedArgsD[MaxOf(c)].detector_params[1]

\* C1 witness: a resolution in which two selected input detectors with different
\* params share a key, and the map holds that key
C1_Witness ==
    /\ route_idx # 0
    /\ \E k \in AllKeys :
          LET c == Contributors(ResolvedArgsD, ResolvedArgsR, "input", k) IN
          /\ \E i, j \in c : ResolvedArgsD[i].detector_params # ResolvedArgsD[j].detector_params
          /\ k \in DOMAIN selection.input

\* two distinct detectors of the list, both named by the route, both with the role's
\* flag set, with the same server key
SharesKey(cfg, route, role) ==
    \E i, j \in 1..Len(cfg.detectors) :
        /\ i # j
        /\ cfg.detectors[i].name \in Range(route.detectors)
        /\ cfg.detectors[j].name \in Range(route.detectors)
        /\ cfg.detectors[i][role] /\ cfg.detectors[j][role]
        /\ cfg.detectors[i].server = cfg.detectors[j].server

Validated == startup \in {"validated", "panicked"}

\* C2 as stated: validation panics whenever some route names two detectors that both
\* apply to output and have the same server key.
C2_OutputDuplicatePanics ==
    (Validated /\ \E r \in 1..Len(gateway_config.routes) :
                        SharesKey(gateway_config, gateway_config.routes[r], "output"))
    => startup = "panicked"

\* C3 as stated: validation panics whenever some route names two detectors that both
\* apply to input and have the same server key.
C3_InputDuplicatePanics ==
    (Validated /\ \E r \in 1..Len(gateway_config.routes) :
                        SharesKey(gateway_config, gateway_config.routes[r], "input"))
    => startup = "panicked"

\* the configurations C4 speaks of
WellFormed(cfg) ==
    \A r \in 1..Len(cfg.routes) :
        LET route == cfg.routes[r] IN
        /\ \A n \in Range(route.detectors) :
              \E i \in 1..Len(cfg.detectors) : cfg.detectors[i].name = n
        /\ \A x, y \in 1..Len(route.detectors) : x # y => route.detectors[x] # route.detectors[y]
        /\ ~ SharesKey(cfg, route, "input")
        /\ ~ SharesKey(cfg, route, "output")

\* C4: validation accepts every configuration whose routes name only existing
\* detectors, name each at most once, and hold no two input detectors and no two
\* output detectors with one server key.
C4_AcceptsWellFormed ==
    (Validated /\ WellFormed(gateway_config)) => startup = "validated"

\* C4 witness: an accepted configuration with a route naming an input-only and an
\* output-only detector that share one server key
C4_Witness ==
    /\ startup = "validated"
    /\ WellFormed(gateway_config)
    /\ \E r \in 1..Len(gateway_config.routes) :
          \E i, j \in 1..Len(gateway_config.detectors) :
              LET di == gateway_config.detectors[i]
                  dj == gateway_config.detectors[j] IN
              /\ di.name # dj.name
              /\ {di.name, dj.name} \subseteq Range(gateway_config.routes[r].detectors)
              /\ di.input /\ ~ di.output
              /\ dj.output /\ ~ dj.input
              /\ di.server = dj.server

\* ---------------------------------------------------------------- responders
\* the orchestrator's reply document, when a successful non-streaming answer held one
ReplyArrived ==
    /\ pc = "done"
    /\ upstream.kind = "reply"
    /\ response.kind = "json"
UpstreamReplyDoc == upstream.text[1].json
ResponseDoc == response.body[1].json

\* the document of the stream chunk being relayed, when it parsed as a streaming reply
ChunkParsed ==
    /\ pc = "streaming"
    /\ upstream.kind = "bytes"
    /\ upstream.utf8
    /\ LET data == DataLines(upstream.lines, 1) IN
       /\ Len(SelectSeq(data, LAMBDA l : l # <<>>)) = 1
       /\ \E i \in 1..Len(data) :
             /\ Len(data[i]) = 1
             /\ DOMAIN data[i][1] = {"json"}
             /\ data[i][1].json \in StreamingDocs
UpstreamChunkDoc ==
    LET data == SelectSeq(DataLines(upstream.lines, 1), LAMBDA l : l # <<>>) IN data[1][1].json
EventDoc == event.data[1].json

HasFallback == Route.fallback_message # None
FallbackText == Route.fallback_message[1]

\* a document carries detections: its detections member is an object
CarriesDetections(doc) == doc.detections.present /\ doc.detections.value # None

\* a detections member that is absent, null, or an object without any result
NoDetections(doc) ==
    \/ ~ doc.detections.present
    \/ doc.detections.value = None
    \/ LET d == doc.detections.value[1] IN
       /\ d.input \in {None, Some(<<>>)}
       /\ d.output \in {None, Some(<<>>)}

\* C5: non-streaming, the reply carries detections and the route has a fallback
\* message: the response's choices are exactly one choice, finish_reason "stop",
\* index 0, role "assistant", content the fallback message.
C5_SingleFallbackChoice ==
    (ReplyArrived /\ HasFallback /\ CarriesDetections(UpstreamReplyDoc)) =>
        /\ response.status = 200
        /\ Len(ResponseDoc.choices) = 1
        /\ ResponseDoc.choices[1].finish_reason = "stop"
        /\ ResponseDoc.choices[1].index = 0
        /\ ResponseDoc.choices[1].message.role = "assistant"
        /\ ResponseDoc.choices[1].message.content = FallbackText

\* C5 witness: the orchestrator returned two choices with input detections, on the
\* route with a fallback message
C5_Witness ==
    /\ ReplyArrived /\ HasFallback
    /\ CarriesDetections(UpstreamReplyDoc)
    /\ UpstreamReplyDoc.detections.value[1].input = Some(<<"result">>)
    /\ Len(UpstreamReplyDoc.choices) = 2
    /\ Len(ResponseDoc.choices) = 1

\* C6 as stated: in both responders the choices pass through unmodified whenever the
\* route has no fallback message or the detections are absent, null or empty.
C6_PassThrough ==
    /\ (ReplyArrived /\ (~ HasFallback \/ NoDetections(UpstreamReplyDoc)))
          => ResponseDoc.choices = UpstreamReplyDoc.choices
    /\ (ChunkParsed /\ (~ HasFallback \/ NoDetections(UpstreamChunkDoc)))
          => EventDoc.choices = UpstreamChunkDoc.choices

\* the rewritten first choice of a streaming chunk
RewrittenFirst(choice) ==
    /\ choice.delta = [content |-> Some(FallbackText), role |-> Some("assistant"),
                       tool_calls |-> None]
    /\ choice.finish_reason = Some("stop")

OthersUnchanged ==
    /\ Len(EventDoc.choices) = Len(UpstreamChunkDoc.choices)
    /\ \A i \in 2..Len(UpstreamChunkDoc.choices) : EventDoc.choices[i] = UpstreamChunkDoc.choices[i]

C8_UpstreamFailureIs500 ==
    (pc = "done" /\ upstream.kind \in {"send_error", "status_error"}) =>
        /\ response.status = 500
        /\ response.kind = "text"
        /\ upstream.kind = "status_error" =>
              /\ [status |-> upstream.status] \in Range(response.body)
              /\ upstream.body # None => [text |-> upstream.body[1]] \in Range(response.body)
        /\ upstream.kind = "send_error" =>
              [debug |-> upstream.error] \in Range(response.body)

\* the names of WireHeaderNames that, compared case-insensitively, equal
\* "authorization" or start with "x-forwarded"
QualifyingNames ==
    {n \in WireHeaderNames :
        \/ Len(n) = 13 /\ to_ascii_lowercase(n) = AuthorizationLiteral
        \/ Len(n) >= 11 /\ to_ascii_lowercase(SubSeq(n, 1, 11)) = ForwardedLiteral}

CountIn(headers, pred(_)) == Cardinality({i \in 1..Len(headers) : pred(headers[i])})

\* C9: a client header is attached to the outbound request exactly once when its
\* name qualifies, and not at all otherwise; nothing else is attached.
C9_ForwardedHeaders ==
    pc = "sent" =>
        /\ \A n \in WireHeaderNames : \A v \in {"v"} :
              CountIn(outbound.headers,
                      LAMBDA h : h.name = to_ascii_lowercase(n) /\ h.value = v)
              = IF n \in QualifyingNames
                THEN CountIn(request.headers, LAMBDA h : h.name = n /\ h.value = v)
                ELSE 0
        /\ Len(outbound.headers)
              = CountIn(request.headers, LAMBDA h : h.name \in QualifyingNames)

\* C9 witness: a request with one qualifying and one other header was sent with
\* exactly the qualifying one
C9_Witness ==
    /\ pc = "sent"
    /\ Len(request.headers) = 2
    /\ \E i, j \in 1..2 : /\ request.headers[i].name \in QualifyingNames
                          /\ request.headers[j].name \notin QualifyingNames
    /\ Len(outbound.headers) = 1

\* a chunk of text without any data line other than the sentinel
NoPayloadChunk ==
    /\ pc = "streaming"
    /\ upstream.kind = "bytes"
    /\ upstream.utf8
    /\ \A i \in 1..Len(upstream.lines) :
          LET line == upstream.lines[i] IN
          Len(line) >= 1 /\ line[1] = DataPrefix => line = <<DataPrefix, Done>>

\* C10 as stated: a chunk without a non-sentinel data line causes no event, and no
\* event with empty data reaches the client.
C10_NoEmptyEvent ==
    /\ NoPayloadChunk => ~ event.emitted
    /\ event.emitted => event.data # <<>>

\* a text chunk of the stream is being relayed
TextChunk ==
    /\ pc = "streaming"
    /\ upstream.kind = "bytes"
    /\ upstream.utf8

\* payload material as opposed to SSE framing: a document, a part of one, or text
IsContent(tok) ==
    \/ DOMAIN tok \in {{"json"}, {"front"}, {"back"}}
    \/ tok = Lit("oops")

\* the tokens of a text
Tokens(text) == {text[i] : i \in 1..Len(text)}

\* the content the chunk being relayed holds, over all its lines
UpstreamContent ==
    {tok \in UNION {Tokens(upstream.lines[i]) : i \in 1..Len(upstream.lines)} : IsContent(tok)}

\* C11 as stated: when the candidate document of a chunk does not parse as a
\* streaming reply, the event emitted for the chunk has the raw candidate as its
\* data, and none of the content the chunk holds is dropped or altered: all of it
\* is in the event.
C11_UnparsedRelayedWhole ==
    (TextChunk /\ ~ ChunkParsed) =>
        /\ event.emitted
        /\ event.data = ChunkResult(upstream).text
        /\ UpstreamContent \subseteq Tokens(event.data)

\* C12 as stated: an upstream item that failed to read or is no UTF-8 gives one
\* event whose data is the error payload, and the client stream ends with it: once
\* an error event was written there is one such event and no event for a later item.
C12_StreamEndsAfterError ==
    /\ (pc = "streaming" /\ upstream.kind \in {"read_error", "bytes"} /\ ~ ChunkResult(upstream).ok)
          => (event.emitted /\ IsErrorEvent(event))
    /\ sse.errors >= 1 => (sse.errors = 1 /\ upstream = NoUpstream /\ ~ event.emitted)

\* C13 as stated: a successful non-streaming answer whose body is no reply document
\* (JSON of another shape, or no JSON) ends the request with an error response, and
\* the handler does not panic.
C13_BadBodyIsErrorResponse ==
    (upstream.kind = "reply" /\ upstream.text \notin {<<Json(d)>> : d \in ReplyDocs}) =>
        /\ pc = "done"
        /\ response.status >= 400

\* C14 as stated: a request whose JSON body is no object is rejected with an error
\* response before the request is built: nothing is sent to the orchestrator and
\* the handler does not panic.
C14_NonObjectRejected ==
    (pc \notin {"idle", "received"} /\ ~ request.payload.is_object) =>
        /\ pc # "panicked"
        /\ response.status >= 400
        /\ outbound = NoOutbound

\* the detectors of the list the resolver selects for the route in a role: named by
\* the route, with params, the role's flag set
SelectedFor(role) ==
    {i \in 1..Len(ResolvedArgsD) :
        /\ ResolvedArgsD[i].name \in Range(ResolvedArgsR)
        /\ ResolvedArgsD[i].detector_params # None
        /\ ResolvedArgsD[i][role]}

\* C15 as stated: for a configuration that passed validate_registered_detectors and
\* any route of it, the resolved input map has as many entries as there are selected
\* detectors with params and input = true, and likewise the output map.
C15_NoCollision ==
    (startup = "validated" /\ route_idx # 0) =>
        \A role \in {"input", "output"} :
            Cardinality(DOMAIN selection[role]) = Cardinality(SelectedFor(role))

\* a document, whole or cut, that carries detections and still has the model's
\* content in its first choice
Unrewritten(tok) ==
    /\ DOMAIN tok \in {{"json"}, {"front"}}
    /\ LET doc == IF DOMAIN tok = {"json"} THEN tok.json ELSE tok.front IN
       /\ DOMAIN doc = {"choices", "detections"}
       /\ CarriesDetections(doc)
       /\ Len(doc.choices) >= 1
       /\ doc.choices[1].delta.content # Some(FallbackText)

\* C16 as stated: on a route with a fallback message, however the transport groups
\* or splits the payloads into chunks, no event gives the client a payload that
\* carries detections with the model's original content.
C16_OnlyRewrittenReachesClient ==
    (pc = "streaming" /\ HasFallback /\ event.emitted) =>
        \A tok \in Tokens(event.data) : ~ Unrewritten(tok)

====
